---- MODULE Spec2Model ----
(***************************************************************************)
(* zOS-PFA/Graph_JRE_Job.py: graph the JES2 resource usage of one job.     *)
(*                                                                         *)
(* The script is a straight-line program over module-level globals.  One   *)
(* invocation is modelled by the globals of the script and a program       *)
(* counter; an exception stops the invocation where it is raised (pc stays *)
(* at the raising statement and err names the exception).  Two invocations *)
(* are carried side by side so that the outcome of one command line can be *)
(* compared with the outcome of another.                                   *)
(*                                                                         *)
(* Strings the script does character work on (job name, resource, the      *)
(* fields of the files) are sequences of one-character strings; file       *)
(* paths and option flags are only compared and are plain strings.         *)
(***************************************************************************)
EXTENDS Integers, Sequences, FiniteSets, TLC

\* ------------------------------------------------------------ bounds
MaxRows == 2        \* rows of the data file
MaxCaps == 2        \* rows of the capacity file

\* ------------------------------------------------------------ strings
LowerCase == <<"a","b","c","d","e","f","g","h","i","j","k","l","m",
               "n","o","p","q","r","s","t","u","v","w","x","y","z">>
UpperCase == <<"A","B","C","D","E","F","G","H","I","J","K","L","M",
               "N","O","P","Q","R","S","T","U","V","W","X","Y","Z">>
Digits    == <<"0","1","2","3","4","5","6","7","8","9">>
\* The characters in use, in code point order.
CodePoints == <<" ", "-", ".", "/">> \o Digits \o UpperCase \o <<"_">> \o LowerCase

IndexIn(seq, c) == CHOOSE k \in 1..Len(seq) : seq[k] = c
IsIn(seq, c)    == \E k \in 1..Len(seq) : seq[k] = c

\* ord(c), up to an order-preserving renumbering
Ord(c) == IndexIn(CodePoints, c)

\* str.upper(), one character
UpperChar(c) == IF IsIn(LowerCase, c) THEN UpperCase[IndexIn(LowerCase, c)] ELSE c

\* str.upper()
upper(s) == [k \in 1..Len(s) |-> UpperChar(s[k])]

\* str.ljust(width): pad with blanks on the right, never truncate
ljust(s, width) ==
    IF Len(s) >= width THEN s
    ELSE s \o [k \in 1..(width - Len(s)) |-> " "]

\* str.strip(): drop leading and trailing blanks
strip(s) ==
    LET solid == {k \in 1..Len(s) : s[k] # " "}
    IN  IF solid = {} THEN <<>>
        ELSE LET lo == CHOOSE k \in solid : \A m \in solid : k <= m
                 hi == CHOOSE k \in solid : \A m \in solid : k >= m
             IN  SubSeq(s, lo, hi)

\* a < b for Python str: lexicographic by code point, a proper prefix first
StrLess(a, b) ==
    \/ /\ Len(a) < Len(b)
       /\ \A k \in 1..Len(a) : a[k] = b[k]
    \/ \E k \in 1..Len(a) :
          /\ k <= Len(b)
          /\ \A m \in 1..(k - 1) : a[m] = b[m]
          /\ Ord(a[k]) < Ord(b[k])

\* max() over a non-empty set of str
StrMax(S) == CHOOSE m \in S : \A x \in S : x = m \/ StrLess(x, m)

\* int(s) for a digit string
RECURSIVE NumVal(_)
NumVal(s) ==
    IF s = <<>> THEN 0
    ELSE 10 * NumVal(SubSeq(s, 1, Len(s) - 1)) + (IndexIn(Digits, s[Len(s)]) - 1)

\* ------------------------------------------------------------ program constants
JQE   == <<"J","Q","E">>
SPOOL == <<"S","P","O","O","L">>
BERT  == <<"B","E","R","T">>
JOE   == <<"J","O","E">>

\* keys = {"JQE":"Q","SPOOL":"S","BERT":"B","JOE":"J"}
keys(k) ==
    CASE k = JQE   -> <<"Q">>
      [] k = SPOOL -> <<"S">>
      [] k = BERT  -> <<"B">>
      [] k = JOE   -> <<"J">>

user_keys == {JQE, SPOOL, BERT, JOE}

COLUMN_CHAR_LEN == 8
NUM_TO_PRINT    == 10
check_name      == "PFA_JES2_Resource_Exhaustion"

\* ------------------------------------------------------------ values
\* A name that is not bound yet.
Unbound == [bound |-> FALSE]
Bound(v) == [bound |-> TRUE, value |-> v]

\* A float64 cell: NaN or a number.
NaN       == [nan |-> TRUE]
Float(v)  == [nan |-> FALSE, value |-> v]

\* ------------------------------------------------------------ inputs
Prog     == "Graph_JRE_Job.py"
DataPath == "SY1.5day.All.data"
CapPath  == "Capacity.data"
NoPath   == "missing.data"

JobA == <<"J","A">>
JobB == <<"J","B">>

KnownPath == "SY1.5day.Known.data"

\* Line n of the data file carries the n-th sample: its clock value, usage
\* and timestamp follow the line number.  The timestamp is always a
\* well-formed YYYYMMDDHHMMSS token, as the PFA check writes it.
DateTimeAt(n) ==
    <<"2","0","2","1","0","1","0","1","0","0","0", Digits[n + 1], "0","0">>

Row(n, c) ==
    [Key |-> c.Key, JobName |-> c.JobName, TaskId |-> c.TaskId,
     Start_Time |-> c.Start_Time, STCK_Time |-> n,
     Current_Usage |-> 1024 * n, Date_Time |-> DateTimeAt(n)]

\* The data files of at most MaxRows lines with fields from choices.
ObsLists(choices) ==
    UNION { { [n \in 1..len |-> Row(n, f[n])] : f \in [1..len -> choices] }
            : len \in 0..MaxRows }

\* The capacity files of at most MaxCaps lines from choices.
CapTables(choices) == UNION { [1..len -> choices] : len \in 0..MaxCaps }

Task1 == ljust(<<"T","1">>, COLUMN_CHAR_LEN)

JobC == <<"J","C">>

\* Rows of job JA under the queried key and under an unknown key, and a row
\* of job JC whose task identifier reads like the job name JB.
PairRows ==
    { [Key |-> <<"Q">>, JobName |-> ljust(JobA, COLUMN_CHAR_LEN),
       TaskId |-> Task1, Start_Time |-> <<"9">>],
      [Key |-> <<"X">>, JobName |-> ljust(JobA, COLUMN_CHAR_LEN),
       TaskId |-> Task1, Start_Time |-> <<"9">>],
      [Key |-> <<"Q">>, JobName |-> ljust(JobC, COLUMN_CHAR_LEN),
       TaskId |-> ljust(JobB, COLUMN_CHAR_LEN), Start_Time |-> <<"9">>] }

\* The same, and job JA under another resource.
ErrorRows ==
    PairRows
    \cup { [Key |-> <<"S">>, JobName |-> ljust(JobA, COLUMN_CHAR_LEN),
            TaskId |-> Task1, Start_Time |-> <<"9">>] }

\* Rows of two spellings of a job name, two keys, two start times.
SelectRows ==
    [Key : { <<"Q">>, <<"X">> },
     JobName : { ljust(JobA, COLUMN_CHAR_LEN),
                 ljust(<<"j","a">>, COLUMN_CHAR_LEN) },
     TaskId : { Task1 },
     Start_Time : { <<"9">>, <<"1","0">> }]

ErrorCaps ==
    { [Resource |-> ljust(JQE, COLUMN_CHAR_LEN), Capacity |-> 1000],
      [Resource |-> ljust(SPOOL, COLUMN_CHAR_LEN), Capacity |-> 3000] }

SelectCaps ==
    { [Resource |-> ljust(JQE, COLUMN_CHAR_LEN), Capacity |-> 1000],
      [Resource |-> ljust(JQE, COLUMN_CHAR_LEN), Capacity |-> 2000],
      [Resource |-> ljust(<<"j","q","e">>, COLUMN_CHAR_LEN), Capacity |-> 500] }

Systems == { "z/OS", "Linux" }

\* The job name and resource as typed on the command line.
JobArgs == { <<"j","a">>, ljust(JobA, COLUMN_CHAR_LEN), <<"j","b">> }
ResArgs == { <<"j","q","e">>, JQE }

GoodArgs == { <<Prog, DataPath, CapPath, j, r>> : j \in JobArgs, r \in ResArgs }

ArgVectors ==
    GoodArgs
    \cup { Append(a, "-v") : a \in GoodArgs }
    \cup { <<Prog, DataPath, CapPath, <<"j","a">>, JQE, "-verbose">>,
           <<Prog, DataPath, CapPath, <<"j","a">>, JQE, "-x">>,
           <<Prog, DataPath, CapPath, <<"j","a">>>>,
           <<Prog, "-h">>, <<Prog, "-help">>, <<Prog, "-v">>,
           <<Prog, NoPath, CapPath, <<"j","a">>, JQE>>,
           <<Prog, DataPath, NoPath, <<"j","a">>, JQE>>,
           <<Prog, DataPath, CapPath, <<"j","a">>, <<"d","i","s","k">>, "-v">>,
           <<Prog, DataPath, CapPath, <<"j","a">>, <<"s","p","o","o","l">>>>,
           <<Prog, DataPath, CapPath, <<"j","a">>, SPOOL, "-v">> }

Invocations == {1, 2}

\* ------------------------------------------------------------ state
VARIABLES
    fs,                 \* the files that exist: path -> rows
    system,             \* platform.system()
    sys_argv,           \* sys.argv of each invocation
    pc,                 \* the statement each invocation is at
    err,                \* the exception that ended it, or "none"
    out,                \* what it has printed, shown and saved, in order
    data_filepath, capacity_filepath, jobName, key, verbose,
    data_file, capacity_file, user_key, PDF_FILENAME,
    the_capacity, the_data

args   == <<data_filepath, capacity_filepath, jobName, key, verbose>>
frames == <<data_file, capacity_file>>
names  == <<user_key, PDF_FILENAME>>
result == <<the_capacity, the_data>>
env    == <<fs, system, sys_argv>>
vars   == <<env, pc, err, out, args, frames, names, result>>

\* The statements in program order; "idle" (no command typed) and "sys.exit"
\* (left after the help text) are outside it.
Statements ==
    <<"parse_args", "check_input", "read_csv", "pad_job_name", "check_job_name",
      "set_names", "process_data:126", "process_data:127", "process_data:128",
      "process_data:131", "process_data:132", "graph_data", "message", "end">>

Stage(l) == IF IsIn(Statements, l) THEN IndexIn(Statements, l) ELSE 0

\* the invocation i moves to statement l
Goto(i, l) == pc' = [pc EXCEPT ![i] = l] /\ UNCHANGED err
\* the invocation i ends with exception e, where it is
Raise(i, e) == err' = [err EXCEPT ![i] = e] /\ UNCHANGED pc

\* The second command is typed when the first has ended.
Ended(i) == pc[i] \in {"sys.exit", "end", "idle"} \/ err[i] # "none"
Turn(i)  == i = 1 \/ Ended(1)

Running(i, l) == pc[i] = l /\ err[i] = "none" /\ Turn(i)

\* ------------------------------------------------------------ helpers of the script
\* The str cells of a frame (data_file.values holds the int cells too, and
\* no int equals a str).
str_values(frame) ==
    UNION { {frame[n].Key, frame[n].JobName, frame[n].TaskId,
             frame[n].Start_Time, frame[n].Date_Time} : n \in 1..Len(frame) }

\* jobName in data_file.values
in_values(name, frame) == name \in str_values(frame)

\* capacity_file['Capacity'].values: the lookup without its mask
capacity_values_unmasked(frame, resource) ==
    [n \in 1..Len(frame) |-> frame[n].Capacity]

\* capacity_file.loc[capacity_file['Resource'] == user_key, 'Capacity'].values
capacity_values(frame, resource) ==
    LET hit == SelectSeq(frame, LAMBDA r : r.Resource = resource)
    IN  [n \in 1..Len(hit) |-> hit[n].Capacity]

\* .values[-1]: the last match instead of the first
last_value(values) == values[Len(values)]

\* .values[0]
first_value(values) == values[1]

\* the mask with the job name compared without regard to case
row_selected_nocase(r, k, name) == r.Key = k /\ upper(r.JobName) = upper(name)

\* (data_file['Key'] == key) & (data_file['JobName'] == jobName)
row_selected(r, k, name) == r.Key = k /\ r.JobName = name

\* data_file.loc[mask]
select_rows(frame, k, name) ==
    SelectSeq(frame, LAMBDA r : row_selected(r, k, name))

\* Series.fillna(value) then astype(int), one cell
fill_cell(cell, value) == IF cell.nan THEN value ELSE cell.value

\* pd.to_datetime(token, format='%Y%m%d%H%M%S')
to_datetime(t) ==
    [year   |-> NumVal(SubSeq(t, 1, 4)),   month  |-> NumVal(SubSeq(t, 5, 6)),
     day    |-> NumVal(SubSeq(t, 7, 8)),   hour   |-> NumVal(SubSeq(t, 9, 10)),
     minute |-> NumVal(SubSeq(t, 11, 12)), second |-> NumVal(SubSeq(t, 13, 14))]

\* the keys of times_dict
start_times(our_data) == { our_data[n].Start_Time : n \in 1..Len(our_data) }

\* min(times_dict.keys()): the earliest start time instead of the latest
earliest_time(times) == CHOOSE m \in times : \A x \in times : x = m \/ StrLess(m, x)

\* latest_time = max(times_dict.keys())
latest_time(times) == StrMax(times)

get_latest_time(our_data) ==
    IF Cardinality(start_times(our_data)) > 1
    THEN SelectSeq(our_data,
                   LAMBDA r : r.Start_Time = latest_time(start_times(our_data)))
    ELSE our_data

\* data_frame.head(num_to_print)
head(frame, n) == SubSeq(frame, 1, IF Len(frame) < n THEN Len(frame) ELSE n)

\* Series.max() of an int column; NaN for an empty one
column_max(frame) ==
    IF frame = <<>> THEN NaN
    ELSE Float(CHOOSE c \in {frame[n].Capacity : n \in 1..Len(frame)} :
                  \A n \in 1..Len(frame) : frame[n].Capacity <= c)

\* int(c * fraction), fraction one of 0, .25, .50, .75, 1
tick(c, quarters) == (c * quarters) \div 4

\* the figure graph_data builds
figure(frame, title, unit) ==
    [title    |-> title,
     yticks   |-> [q \in 0..4 |-> <<tick(column_max(frame).value, q), unit>>],
     capacity |-> [n \in 1..Len(frame) |-> <<frame[n].Date_Time, frame[n].Capacity>>],
     usage    |-> [n \in 1..Len(frame) |->
                      <<frame[n].Date_Time, <<frame[n].Current_Usage, 1024>> >>]]

\* ------------------------------------------------------------ the script, statement by statement
Put(f, i, v) == [f EXCEPT ![i] = v]
Emit(i, e)   == out' = Put(out, i, Append(out[i], e))

\* lines 50-82: parse the command line
ParseArgs(i) ==
    /\ Running(i, "parse_args")
    /\ LET a == sys_argv[i]
           take(v) ==
               /\ data_filepath' = Put(data_filepath, i, a[2])
               /\ capacity_filepath' = Put(capacity_filepath, i, a[3])
               /\ jobName' = Put(jobName, i, upper(a[4]))
               /\ key' = Put(key, i, upper(a[5]))
               /\ verbose' = Put(verbose, i, v)
               /\ Goto(i, "check_input")
               /\ UNCHANGED out
       IN  IF Len(a) = 5 THEN take(FALSE)
           ELSE IF Len(a) = 6 /\ a[6] \in {"-v", "-verbose"} THEN take(TRUE)
           ELSE IF Len(a) = 2 /\ a[2] \in {"-h", "-help"}
                THEN /\ Emit(i, [op |-> "print", text |-> "help"])
                     /\ Goto(i, "sys.exit")
                     /\ UNCHANGED args
           ELSE /\ Raise(i, "Exception: arguments")
                /\ UNCHANGED <<out, args>>
    /\ UNCHANGED <<env, frames, names, result>>

\* lines 85-92: the files exist, the resource is known
CheckInput(i) ==
    /\ Running(i, "check_input")
    /\ IF data_filepath[i] \notin DOMAIN fs
       THEN Raise(i, "Exception: data file")
       ELSE IF capacity_filepath[i] \notin DOMAIN fs
       THEN Raise(i, "Exception: capacity file")
       ELSE IF key[i] \notin user_keys
       THEN Raise(i, "Exception: resource")
       ELSE Goto(i, "read_csv")
    /\ UNCHANGED <<env, out, args, frames, names, result>>

\* lines 95-107: read both files (fs holds the rows read_csv yields)
ReadFiles(i) ==
    /\ Running(i, "read_csv")
    /\ data_file' = Put(data_file, i, fs[data_filepath[i]])
    /\ capacity_file' = Put(capacity_file, i, fs[capacity_filepath[i]])
    /\ Goto(i, "pad_job_name")
    /\ UNCHANGED <<env, out, args, names, result>>

\* lines 111-112 without the padding
PadJobName_unpadded(i) ==
    /\ Running(i, "pad_job_name")
    /\ Goto(i, "check_job_name")
    /\ UNCHANGED <<env, out, args, frames, names, result>>

\* lines 111-112
PadJobName(i) ==
    /\ Running(i, "pad_job_name")
    /\ jobName' = Put(jobName, i,
                      IF Len(jobName[i]) < COLUMN_CHAR_LEN
                      THEN ljust(jobName[i], COLUMN_CHAR_LEN) ELSE jobName[i])
    /\ Goto(i, "check_job_name")
    /\ UNCHANGED <<env, out, data_filepath, capacity_filepath, key, verbose,
                   frames, names, result>>

\* lines 115-116
CheckJobName(i) ==
    /\ Running(i, "check_job_name")
    /\ IF ~ in_values(jobName[i], data_file[i])
       THEN Raise(i, "Exception: job name")
       ELSE Goto(i, "set_names")
    /\ UNCHANGED <<env, out, args, frames, names, result>>

\* lines 118-123
SetNames(i) ==
    /\ Running(i, "set_names")
    /\ key' = Put(key, i, keys(key[i]))
    /\ user_key' = Put(user_key, i, ljust(key[i], COLUMN_CHAR_LEN))
    /\ data_file' = Put(data_file, i,
           [n \in 1..Len(data_file[i]) |->
               [Key |-> data_file[i][n].Key,
                JobName |-> data_file[i][n].JobName,
                TaskId |-> data_file[i][n].TaskId,
                Start_Time |-> data_file[i][n].Start_Time,
                STCK_Time |-> data_file[i][n].STCK_Time,
                Current_Usage |-> data_file[i][n].Current_Usage,
                Date_Time |-> data_file[i][n].Date_Time,
                Capacity |-> NaN]])
    /\ PDF_FILENAME' = Put(PDF_FILENAME, i,
           strip(jobName[i]) \o <<"_">> \o strip(ljust(key[i], COLUMN_CHAR_LEN))
           \o <<"_","g","r","a","p","h",".","p","d","f">>)
    /\ Goto(i, "process_data:126")
    /\ UNCHANGED <<env, out, data_filepath, capacity_filepath, jobName, verbose,
                   capacity_file, result>>

\* line 126
ResolveCapacity(i) ==
    /\ Running(i, "process_data:126")
    /\ LET values == capacity_values(capacity_file[i], user_key[i])
       IN  IF values = <<>>
           THEN Raise(i, "IndexError") /\ UNCHANGED the_capacity
           ELSE /\ the_capacity' = Put(the_capacity, i, Bound(first_value(values)))
                /\ Goto(i, "process_data:127")
    /\ UNCHANGED <<env, out, args, frames, names, the_data>>

\* line 127
SelectData(i) ==
    /\ Running(i, "process_data:127")
    /\ the_data' = Put(the_data, i,
                       Bound(select_rows(data_file[i], key[i], jobName[i])))
    /\ Goto(i, "process_data:128")
    /\ UNCHANGED <<env, out, args, frames, names, the_capacity>>

\* lines 128-130.  The in-place fillna on the Capacity column of the selected
\* frame takes effect on the frame (pandas without copy-on-write, for which
\* line 36 silences the chained-assignment warning).
FillAndConvert(i) ==
    /\ Running(i, "process_data:128")
    /\ LET d == the_data[i].value
       IN  the_data' = Put(the_data, i, Bound(
               [n \in 1..Len(d) |->
                   [d[n] EXCEPT
                      !.Capacity = fill_cell(d[n].Capacity, the_capacity[i].value),
                      !.Date_Time = to_datetime(d[n].Date_Time)]]))
    /\ Goto(i, "process_data:131")
    /\ UNCHANGED <<env, out, args, frames, names, the_capacity>>

\* line 131, lines 164-177
GetLatestTime(i) ==
    /\ Running(i, "process_data:131")
    /\ the_data' = Put(the_data, i, Bound(get_latest_time(the_data[i].value)))
    /\ Goto(i, "process_data:132")
    /\ UNCHANGED <<env, out, args, frames, names, the_capacity>>

\* lines 132-134, 155-162, 180-182
PrintDetails(i) ==
    /\ Running(i, "process_data:132")
    /\ IF verbose[i]
       THEN Emit(i, [op |-> "print_details", system |-> system,
                     job_name |-> jobName[i], resource |-> user_key[i],
                     data_filepath |-> data_filepath[i],
                     capacity_filepath |-> capacity_filepath[i],
                     preview |-> head(the_data[i].value, NUM_TO_PRINT)])
       ELSE UNCHANGED out
    /\ jobName' = Put(jobName, i, strip(jobName[i]))
    /\ user_key' = Put(user_key, i, strip(user_key[i]))
    /\ Goto(i, "graph_data")
    /\ UNCHANGED <<env, data_filepath, capacity_filepath, key, verbose,
                   frames, PDF_FILENAME, result>>

\* lines 136-153, 183
GraphData(i) ==
    /\ Running(i, "graph_data")
    /\ IF column_max(the_data[i].value).nan
       THEN \* int(nan) at line 138
            Raise(i, "ValueError") /\ UNCHANGED out
       ELSE LET fig == figure(the_data[i].value,
                              <<check_name, jobName[i], user_key[i]>>, user_key[i])
            IN  /\ IF system # "z/OS"
                   THEN Emit(i, [op |-> "show", fig |-> fig])
                   ELSE Emit(i, [op |-> "savefig", fig |-> fig,
                                 file |-> PDF_FILENAME[i]])
                /\ Goto(i, "message")
    /\ UNCHANGED <<env, args, frames, names, result>>

\* lines 185-186
Message(i) ==
    /\ Running(i, "message")
    /\ IF system = "z/OS"
       THEN Emit(i, [op |-> "print", text |-> "created",
                     file |-> PDF_FILENAME[i]])
       ELSE UNCHANGED out
    /\ Goto(i, "end")
    /\ UNCHANGED <<env, args, frames, names, result>>

Next ==
    \/ \E i \in Invocations : ParseArgs(i)
    \/ \E i \in Invocations : CheckInput(i)
    \/ \E i \in Invocations : ReadFiles(i)
    \/ \E i \in Invocations : PadJobName(i)
    \/ \E i \in Invocations : CheckJobName(i)
    \/ \E i \in Invocations : SetNames(i)
    \/ \E i \in Invocations : ResolveCapacity(i)
    \/ \E i \in Invocations : SelectData(i)
    \/ \E i \in Invocations : FillAndConvert(i)
    \/ \E i \in Invocations : GetLatestTime(i)
    \/ \E i \in Invocations : PrintDetails(i)
    \/ \E i \in Invocations : GraphData(i)
    \/ \E i \in Invocations : Message(i)

\* No global is bound before the script runs.
Fresh ==
    /\ err = [i \in Invocations |-> "none"]
    /\ out = [i \in Invocations |-> <<>>]
    /\ data_filepath = [i \in Invocations |-> Unbound]
    /\ capacity_filepath = [i \in Invocations |-> Unbound]
    /\ jobName = [i \in Invocations |-> Unbound]
    /\ key = [i \in Invocations |-> Unbound]
    /\ verbose = [i \in Invocations |-> Unbound]
    /\ data_file = [i \in Invocations |-> Unbound]
    /\ capacity_file = [i \in Invocations |-> Unbound]
    /\ user_key = [i \in Invocations |-> Unbound]
    /\ PDF_FILENAME = [i \in Invocations |-> Unbound]
    /\ the_capacity = [i \in Invocations |-> Unbound]
    /\ the_data = [i \in Invocations |-> Unbound]

\* The two files of the command line, with any contents.
Files(rows, caps) ==
    \E obs \in ObsLists(rows), table \in CapTables(caps) :
        fs = (DataPath :> obs) @@ (CapPath :> table)

\* One command line.
Once(vectors) ==
    /\ \E a \in vectors : sys_argv = (1 :> a) @@ (2 :> <<Prog>>)
    /\ pc = (1 :> "parse_args") @@ (2 :> "idle")

\* Any command line on small files: every way the script ends.
Init ==
    /\ Files(ErrorRows, ErrorCaps)
    /\ system \in Systems
    /\ Once(ArgVectors)
    /\ Fresh

Spec == Init /\ [][Next]_vars

\* One well-formed command line on any files: what is selected.
InitSelect ==
    /\ Files(SelectRows, SelectCaps)
    /\ system = "z/OS"
    /\ Once({ <<Prog, DataPath, CapPath, <<"j","a">>, <<"j","q","e">>>> })
    /\ Fresh

SpecSelect == InitSelect /\ [][Next]_vars

\* The same files and platform, two command lines that differ in how the
\* job name and the resource are typed.
InitArgs ==
    /\ Files(PairRows, ErrorCaps)
    /\ system \in Systems
    /\ \E a \in { <<Prog, DataPath, CapPath, <<"j","a">>, <<"j","q","e">>>>,
                  <<Prog, DataPath, CapPath, <<"j","a">>, <<"j","q","e">>, "-v">> },
          j \in JobArgs,
          r \in ResArgs \cup { <<"d","i","s","k">>, <<"D","I","S","K">> } :
          sys_argv = (1 :> a) @@ (2 :> [a EXCEPT ![4] = j, ![5] = r])
    /\ pc = [i \in Invocations |-> "parse_args"]
    /\ Fresh

SpecArgs == InitArgs /\ [][Next]_vars

\* The storage codes the script knows.
storage_codes == { keys(k) : k \in user_keys }

\* The rows of a data file whose key is a storage code.
KnownRows(obs) == SelectSeq(obs, LAMBDA r : r.Key \in storage_codes)

\* The same command line on a data file and on that file without the rows
\* whose key is no storage code, neither of them empty.
InitInert ==
    /\ \E obs \in ObsLists(ErrorRows), table \in CapTables(ErrorCaps) :
          /\ KnownRows(obs) # <<>>
          /\ fs = (DataPath :> obs) @@ (KnownPath :> KnownRows(obs))
                  @@ (CapPath :> table)
    /\ system \in Systems
    /\ \E a \in { <<Prog, DataPath, CapPath, <<"j","a">>, JQE>>,
                  <<Prog, DataPath, CapPath, <<"j","a">>, JQE, "-v">>,
                  <<Prog, DataPath, CapPath, <<"j","b">>, JQE>> } :
          sys_argv = (1 :> a) @@ (2 :> [a EXCEPT ![2] = KnownPath])
    /\ pc = [i \in Invocations |-> "parse_args"]
    /\ Fresh

SpecInert == InitInert /\ [][Next]_vars

\* ------------------------------------------------------------ the query, read off the command line
After(i, l) == Stage(pc[i]) >= Stage(l)

\* the job name, upper-cased and blank-padded to the column width
QueryJob(i) == ljust(upper(sys_argv[i][4]), COLUMN_CHAR_LEN)
\* the resource mnemonic, upper-cased; padded to the column width; its code
QueryRes(i) == upper(sys_argv[i][5])
Mnemonic(i) == ljust(QueryRes(i), COLUMN_CHAR_LEN)
Code(i)     == keys(QueryRes(i))

\* the rows of the two files named on the command line
DataOf(i) == fs[sys_argv[i][2]]
CapOf(i)  == fs[sys_argv[i][3]]

\* the lines of the data file that match (storage code, padded job name)
Matching(i) ==
    { n \in 1..Len(DataOf(i)) :
        DataOf(i)[n].Key = Code(i) /\ DataOf(i)[n].JobName = QueryJob(i) }

\* the lines of the capacity file whose resource is the padded mnemonic
Listed(i) == { n \in 1..Len(CapOf(i)) : CapOf(i)[n].Resource = Mnemonic(i) }

\* the start times of a set of lines of the data file
StartsOf(i, lines) == { DataOf(i)[n].Start_Time : n \in lines }

\* the lines of the data file a series is made of (line n carries clock n)
Lines(series) == { series[k].STCK_Time : k \in 1..Len(series) }

\* process_data has built the series it returns
Returned(i) == After(i, "process_data:132")

Least(S) == CHOOSE n \in S : \A m \in S : n <= m

\* ------------------------------------------------------------ claims

\* C1: whenever selection returns a series, every returned row carries the
\* greatest start_time (as a string) among the rows matching (storage code,
\* padded job name), and the series is made of exactly the matching rows
\* that carry it.
C1_LatestCohort ==
    \A i \in Invocations :
        Returned(i) =>
            LET series == the_data[i].value
            IN  IF Matching(i) = {} THEN series = <<>>
                ELSE LET top == StrMax(StartsOf(i, Matching(i)))
                     IN  /\ \A k \in 1..Len(series) : series[k].Start_Time = top
                         /\ Lines(series) =
                              { n \in Matching(i) : DataOf(i)[n].Start_Time = top }

\* a series was returned from matching rows of two start times: one row was
\* dropped, one kept
C1_Witness ==
    /\ Returned(1)
    /\ Cardinality(StartsOf(1, Matching(1))) > 1
    /\ the_data[1].value # <<>>
    /\ Len(the_data[1].value) < Cardinality(Matching(1))

\* C2: with a matching row in the data file and the padded mnemonic in the
\* capacity file, the invocation raises nothing, and the series it returns
\* is not empty and carries in every row the capacity of the first capacity
\* row whose resource is the padded mnemonic.
C2_CapacityConstant ==
    \A i \in Invocations :
        (After(i, "read_csv") /\ Matching(i) # {} /\ Listed(i) # {}) =>
            /\ err[i] = "none"
            /\ Returned(i) =>
                  /\ the_data[i].value # <<>>
                  /\ \A k \in 1..Len(the_data[i].value) :
                        the_data[i].value[k].Capacity
                            = CapOf(i)[Least(Listed(i))].Capacity

\* the script ran to its end on a capacity file that lists the resource
\* twice, with two capacities
C2_Witness ==
    /\ pc[1] = "end"
    /\ the_data[1].value # <<>>
    /\ \E n, m \in Listed(1) : CapOf(1)[n].Capacity # CapOf(1)[m].Capacity

\* C3: two invocations on the same files whose job names are equal once
\* upper-cased and padded, and whose resources are equal once upper-cased,
\* end the same way: same statement, same exception, same output, same
\* series.
C3_NormalizedArguments ==
    (/\ Ended(1) /\ Ended(2)
     /\ QueryJob(1) = QueryJob(2)
     /\ QueryRes(1) = QueryRes(2)) =>
        /\ pc[1] = pc[2]
        /\ err[1] = err[2]
        /\ out[1] = out[2]
        /\ the_data[1] = the_data[2]

\* both ran to the end, one with the job name and resource typed in lower
\* case, the other upper-cased and padded, and both drew a figure
C3_Witness ==
    /\ pc[1] = "end" /\ pc[2] = "end"
    /\ sys_argv[1][4] # sys_argv[2][4]
    /\ sys_argv[1][5] # sys_argv[2][5]
    /\ QueryJob(1) = QueryJob(2)
    /\ out[2] # <<>>

\* C4: if no row of the data file has the normalized job name in its
\* job_name field, the invocation stops at the job name check with the
\* job-not-found exception, before the capacity is resolved.
C4_JobNotFound ==
    \A i \in Invocations :
        (/\ After(i, "check_job_name")
         /\ \A n \in 1..Len(DataOf(i)) : DataOf(i)[n].JobName # QueryJob(i)) =>
            /\ pc[i] = "check_job_name"
            /\ err[i] \in {"none", "Exception: job name"}
            /\ ~ the_capacity[i].bound

\* C5: if no row matches (storage code, padded job name), selection fails
\* and the script never gets to draw.
C5_EmptySelectionFails ==
    \A i \in Invocations :
        (After(i, "read_csv") /\ Matching(i) = {}) => ~ After(i, "graph_data")

\* C6: if the capacity file has no row for the padded mnemonic of a valid
\* resource, the invocation never gets past the capacity lookup, it ends
\* with a not-found exception, and the data rows are never filtered.
C6_CapacityNotFound ==
    \A i \in Invocations :
        (After(i, "read_csv") /\ Listed(i) = {}) =>
            /\ ~ After(i, "process_data:127")
            /\ ~ the_data[i].bound
            /\ ~ the_capacity[i].bound
            /\ err[i] \in {"none", "Exception: job name", "IndexError"}
            /\ (pc[i] = "process_data:126" /\ Ended(i)) => err[i] = "IndexError"

\* the capacity lookup failed although rows of the data file match the query
C6_Witness ==
    /\ err[1] = "IndexError"
    /\ Matching(1) # {}
    /\ CapOf(1) # <<>>

\* C7: an invocation that ends with an exception has not entered graph_data
\* and has printed, shown and saved nothing.
C7_NoOutputOnError ==
    \A i \in Invocations :
        err[i] # "none" => (pc[i] # "graph_data" /\ out[i] = <<>>)

\* The kind of failure an exception stands for: a missing job and a missing
\* capacity row are both "not found".
ErrorKind(e) ==
    IF e \in {"Exception: job name", "IndexError"} THEN "NotFound" ELSE e

\* C8: removing the rows whose key is no storage code changes neither the
\* exception an invocation ends with nor the series it returns.
C8_InertRows ==
    (Ended(1) /\ Ended(2)) =>
        /\ ErrorKind(err[1]) = ErrorKind(err[2])
        /\ the_data[1] = the_data[2]

\* C9 as claimed: a row whose job_name is the normalized job name up to
\* letter case is selected, and a capacity row whose resource is the padded
\* mnemonic up to letter case resolves the capacity.
C9_CaseInsensitiveFields ==
    \A i \in Invocations :
        /\ pc[i] = "process_data:128" =>
              \A n \in 1..Len(DataOf(i)) :
                  (DataOf(i)[n].Key = Code(i)
                   /\ upper(DataOf(i)[n].JobName) = QueryJob(i))
                      => n \in Lines(the_data[i].value)
        /\ (/\ After(i, "process_data:126")
            /\ \E n \in 1..Len(CapOf(i)) : upper(CapOf(i)[n].Resource) = Mnemonic(i))
              => err[i] # "IndexError"

\* C9 amended: the stored fields are compared exactly.  The rows selected
\* at line 127 are exactly those whose key is the storage code and whose
\* job_name equals the upper-cased, padded job name character for
\* character; the capacity is resolved only from a row whose resource
\* equals the padded mnemonic character for character, and without such a
\* row the lookup raises.
C9_ExactFields ==
    \A i \in Invocations :
        /\ pc[i] = "process_data:128" => Lines(the_data[i].value) = Matching(i)
        /\ the_capacity[i].bound =>
              \E n \in Listed(i) : the_capacity[i].value = CapOf(i)[n].Capacity
        /\ (pc[i] = "process_data:126" /\ Ended(i)) => Listed(i) = {}

\* line 127 has run on a data file holding the job under the queried key in
\* two spellings: the upper-case rows were selected, the lower-case ones not
C9_Witness ==
    /\ pc[1] = "process_data:128"
    /\ the_data[1].value # <<>>
    /\ \E n \in 1..Len(DataOf(1)) :
          /\ DataOf(1)[n].Key = Code(1)
          /\ DataOf(1)[n].JobName # QueryJob(1)
          /\ upper(DataOf(1)[n].JobName) = QueryJob(1)
          /\ n \notin Lines(the_data[1].value)

\* C10: when the matching rows carry more than one start_time, the rows
\* kept are those whose start_time is the greatest as a number.
C10_NumericallyLatest ==
    \A i \in Invocations :
        (Returned(i) /\ Cardinality(StartsOf(i, Matching(i))) > 1) =>
            \A k \in 1..Len(the_data[i].value) :
                \A t \in StartsOf(i, Matching(i)) :
                    NumVal(t) <= NumVal(the_data[i].value[k].Start_Time)

====
